---- MODULE Spec2Model ----
(***************************************************************************)
(* SilentVoice backend: the /ws/sign endpoint (api.py), the shared         *)
(* SignLanguageWebSocketHandler (websocket_handler.py), the                *)
(* AdvancedASLRecognizer temporal filter (services/advanced_recognition.py)*)
(* and the sequence-model adapters (services/inference.py,                 *)
(* model_service.py).                                                      *)
(*                                                                         *)
(* Confidences are integers in percent (0.4 is 40).  Wall-clock time is    *)
(* counted in ticks of half a second (0.5 s is 1 tick, 1.0 s is 2 ticks).  *)
(* Landmark geometry is not computed here: what a recognizer returns for a *)
(* frame is drawn from the set of results its code can return.  A buffered *)
(* frame is represented by its arrival number on its connection.           *)
(***************************************************************************)
EXTENDS Integers, Sequences, FiniteSets, TLC

\* ----------------------------------------------------------------- bounds
Conns == {"ws1", "ws2"}
\* frames a run takes beyond the depth it has to reach (see MayAccept)
MaxOverflow == 2
\* the clock reading at start-up (time.time() is far beyond any cooldown)
StartTime == 3
\* cooldown windows the clock may advance by in one run
MaxWindows == 1
\* gestures one run of the recognizer may emit
MaxEmissions == 3
\* words in the text of a 'speech' message
MaxWords == 2
\* landmark records in a list beyond the 21 of a hand
MaxExtra == 2
\* calls of calculate_confidence between two resets of its history
MaxCalls == 4
\* entries of a sign dictionary
CatalogSize == 3
\* frames in the gesture buffer whose motion direction is taken
MaxFrames == 2
\* frames in a gesture buffer beyond the 10 that peak counting asks for
MaxBeyond == 2

\* ------------------------------------------------------ program constants
\* websocket.gesture_history keeps the last 30 frames
HistoryCap == 30
\* frames needed before recognize_dynamic_sign is tried
MinDynamicFrames == 5
\* the dictionary result must reach this to skip the sequence model
MLThreshold == 50
\* the surviving result must reach this to skip the rule-based fallback
RuleThreshold == 30
\* the legacy branch sends only above this
LegacyThreshold == 50
\* SignLanguageWebSocketHandler.__init__
confidence_threshold == 70
buffer_size == 30
min_frames_for_prediction == 15
prediction_cooldown == 1
\* AdvancedASLRecognizer.__init__
BufferMaxLen == 60
recognition_cooldown == 2
min_confidence == 60
min_frames_for_static == 5
GestureHistoryMaxLen == 20
\* services/preprocess.py: the landmarks of a hand; 1.0, numbers being hundredths
HandLandmarks == 21
One == 100
\* services/confidence_system.py
history_size == 5
EntropyWeight == 30
Boost == 110
Damp == 90
Consistent == 67
Inconsistent == 33
MinCalibration == 80
MaxCalibration == 120
\* _count_repetitions counts peaks in 10 positions or more
MinPositions == 10

Units == {"endpoint", "handler", "advanced", "adapter", "library", "confidence"}

VARIABLES
    unit,                \* which object this run drives
    now,                 \* last reading of time.time()
    active_connections,  \* sign_handler.active_connections (a list)
    frame_buffers,       \* sign_handler.frame_buffers
    last_predictions,    \* sign_handler.last_predictions
    connection_data,     \* sign_handler.connection_data
    model,               \* sign_handler.model is not None
    pc,                  \* where each websocket's serving coroutine is
    gesture_history,     \* websocket.gesture_history, where the attribute exists
    wire,                \* the shape of pose_data each client sends
    accepted,            \* frames appended so far to a connection's buffer
    is_loaded,           \* InferenceService.is_loaded
    out,                 \* the events the last step delivered
    gesture_buffer,      \* AdvancedASLRecognizer.gesture_buffer
    current_state,       \* AdvancedASLRecognizer.current_state
    last_recognized,     \* AdvancedASLRecognizer.last_recognized
    last_recognition_time, \* AdvancedASLRecognizer.last_recognition_time
    recognizer_history,  \* AdvancedASLRecognizer.gesture_history
    frames_seen,         \* frames given to process_frame since the last reset
    emitted,             \* gestures process_frame has returned so far
    last_emission,       \* the last gesture process_frame returned, and when
    last_sent,           \* the sign of the last prediction delivered to a connection
    inbox,               \* what a client had received before it sent its first message
    spoke,               \* whether a client has sent a message on its connection
    ms_is_loaded,        \* ModelService._is_loaded
    prediction_history,  \* ConfidenceSystem.prediction_history
    calibration_factor,  \* ConfidenceSystem.calibration_factor
    ret                  \* what the last call returned

handler_vars == <<active_connections, frame_buffers, last_predictions, connection_data>>

ws_vars == <<active_connections, frame_buffers, last_predictions, connection_data,
             model, pc, gesture_history, wire, accepted, out, last_sent,
             inbox, spoke>>

conf_vars == <<prediction_history, calibration_factor>>

rec_vars == <<gesture_buffer, current_state, last_recognized, last_recognition_time,
              recognizer_history, frames_seen, emitted, last_emission>>

vars == <<unit, now, active_connections, frame_buffers, last_predictions,
          connection_data, model, pc, gesture_history, wire, accepted,
          is_loaded, out, gesture_buffer, current_state, last_recognized,
          last_recognition_time, recognizer_history, frames_seen, emitted,
          last_emission, last_sent, inbox, spoke, ms_is_loaded,
          prediction_history, calibration_factor, ret>>

\* ---------------------------------------------------------------- helpers
InSeq(x, s) == \E i \in 1..Len(s) : s[i] = x

FirstIndex(x, s) == CHOOSE i \in 1..Len(s) : s[i] = x /\ \A j \in 1..(i - 1) : s[j] # x

\* list.remove(x): removes the first occurrence
ListRemove(s, x) ==
    LET i == FirstIndex(x, s)
    IN  SubSeq(s, 1, i - 1) \o SubSeq(s, i + 1, Len(s))

\* del d[k]
DictDel(d, k) == [x \in (DOMAIN d) \ {k} |-> d[x]]

\* d[k] = v
DictSet(d, k, v) == [x \in (DOMAIN d) \cup {k} |-> IF x = k THEN v ELSE d[x]]

Max(a, b) == IF a >= b THEN a ELSE b

Result(l, c) == [label |-> l, conf |-> c]
Raise == [label |-> "raise", conf |-> -1]
NotAsked == [label |-> "not asked", conf |-> -1]

\* a RecognizedGesture, and None
Gesture(s, c) == [sign |-> s, confidence |-> c]
NoGesture == Gesture("None", -1)
\* no gesture emitted yet
NoEmission == [sign |-> "None", time |-> 0, suppressed |-> FALSE]
\* what a call returned: nothing yet, a value, or an exception
NoReturn == [of |-> "", arg |-> "", value |-> "", raised |-> FALSE]
Returned(f, a, v) == [of |-> f, arg |-> a, value |-> v, raised |-> FALSE]
Raised(f, a) == [of |-> f, arg |-> a, value |-> "", raised |-> TRUE]

Event(t, s, c) == [type |-> t, sign |-> s, confidence |-> c]
\* error_response of api.py carries "status", "message", "error" and no "type"
ErrorResponse == Event("", "", -1)

\* ------------------------------------------------- what recognizers return
\* ASLRecognizer.recognize_static_sign on a hand of 21 landmarks
StaticResults == {Result("UNKNOWN", 0), Result("YES", 25), Result("YES", 45), Result("YES", 80)}
\* ASLRecognizer.recognize_dynamic_sign on a sequence of landmark lists
DynamicResults == {Result("UNKNOWN", 0), Result("HELLO", 80)}
\* InferenceService.predict once loaded (it catches every exception)
MLResults == {Result("Unknown", 0), Result("PLEASE", 45), Result("PLEASE", 90)}
\* process_sign_language
RuleResults == {Result("Unknown", 0), Result("Unknown", 45), Result("GOOD", 95)}
\* process_sign_language on the single hand of the legacy branch
LegacyResults == {Result("Unknown", 0), Result("HELLO", 55), Result("GOOD", 95)}
\* SignLanguageModel.predict as called by process_landmarks
PredictResults == {Result("HELLO", 90), Result("YES", 90), Result("YES", 50)}

\* ----------------------------------------------- SignLanguageWebSocketHandler
Handler == [ac |-> active_connections, fb |-> frame_buffers,
            lp |-> last_predictions, cd |-> connection_data]

SetHandler(h) ==
    /\ active_connections' = h.ac
    /\ frame_buffers' = h.fb
    /\ last_predictions' = h.lp
    /\ connection_data' = h.cd

connect(h, ws) ==
    LET ac == Append(h.ac, ws)
    IN  [ac |-> ac,
         fb |-> DictSet(h.fb, ws, <<>>),
         lp |-> DictSet(h.lp, ws, [time |-> 0, gesture |-> "None"]),
         cd |-> DictSet(h.cd, ws, [client_id |-> Len(ac), predictions_count |-> 0])]

\* a disconnect that forgets the frame buffer: what C4 rules out
disconnect_keeps_buffer(h, ws) ==
    IF InSeq(ws, h.ac)
    THEN [ac |-> ListRemove(h.ac, ws),
          fb |-> h.fb,
          lp |-> DictDel(h.lp, ws),
          cd |-> DictDel(h.cd, ws)]
    ELSE h

disconnect(h, ws) ==
    IF InSeq(ws, h.ac)
    THEN [ac |-> ListRemove(h.ac, ws),
          fb |-> DictDel(h.fb, ws),
          lp |-> DictDel(h.lp, ws),
          cd |-> DictDel(h.cd, ws)]
    ELSE h

\* a send_json that, when the send fails, only takes the websocket off the list
send_json_unlists(h, ws, ok) ==
    IF ok \/ ~InSeq(ws, h.ac) THEN h ELSE [h EXCEPT !.ac = ListRemove(h.ac, ws)]

\* SignLanguageWebSocketHandler.send_json: a failed send tears the session down
send_json(h, ws, ok) == IF ok THEN h ELSE disconnect(h, ws)

\* what a send delivers
Delivered(ok, ev) == IF ok THEN <<ev>> ELSE <<>>

\* a full buffer that turns the new frame away instead of evicting the oldest
deque_append_keeps_oldest(q, x, n) == IF Len(q) >= n THEN q ELSE Append(q, x)

\* deque(maxlen=n).append(x)
deque_append(q, x, n) == IF Len(q) >= n THEN Append(Tail(q), x) ELSE Append(q, x)

\* websocket.gesture_history.append(pose_data), then pop(0) above 30 entries
history_append(h, x) ==
    LET a == Append(h, x)
    IN  IF Len(a) > HistoryCap THEN Tail(a) ELSE a

\* May connection c take one more frame?  A session alone in its run fills its
\* buffer of cap frames and overflows it by MaxOverflow; of the sessions that
\* share a run, one goes as far as the depth at which frames are evaluated and
\* MaxOverflow beyond, while the others take MaxOverflow frames.
MayAccept(c, cap, depth) ==
    IF Cardinality({d \in Conns : pc[d] # "new"}) > 1
    THEN /\ accepted[c] < depth + MaxOverflow
         /\ \A d \in Conns : accepted[d] <= depth + MaxOverflow
         /\ \/ accepted[c] < MaxOverflow
            \/ \A d \in Conns \ {c} : accepted[d] <= MaxOverflow
    ELSE accepted[c] < cap + MaxOverflow

\* Messages other than frames arrive while no session has taken more than
\* MaxOverflow frames; further on the sessions are sent frames only.
Shallow == \A c \in Conns : accepted[c] <= MaxOverflow

\* 'speech' messages arrive before the first frame of any session
Quiet == \A c \in Conns : accepted[c] = 0

\* the last clock reading of a run
MaxTime ==
    StartTime + MaxWindows * (IF unit = "advanced" THEN recognition_cooldown
                                                   ELSE prediction_cooldown)

\* ------------------------------------------------------------------- Init
Init ==
    /\ unit \in Units
    /\ now = StartTime
    /\ active_connections = <<>>
    /\ frame_buffers = <<>>
    /\ last_predictions = <<>>
    /\ connection_data = <<>>
    /\ model \in (IF unit = "handler" THEN BOOLEAN ELSE {TRUE})
    /\ pc = [c \in Conns |-> "new"]
    /\ gesture_history = <<>>
    /\ wire = [c \in Conns |-> "unset"]
    /\ accepted = [c \in Conns |-> 0]
    /\ is_loaded = FALSE
    /\ out = <<>>
    /\ gesture_buffer = <<>>
    /\ current_state = "idle"
    /\ last_recognized = NoGesture
    /\ last_recognition_time = 0
    /\ recognizer_history = <<>>
    /\ frames_seen = 0
    /\ emitted = 0
    /\ last_emission = NoEmission
    /\ last_sent = [c \in Conns |-> "None"]
    /\ inbox = [c \in Conns |-> <<>>]
    /\ spoke = [c \in Conns |-> FALSE]
    /\ ms_is_loaded = FALSE
    /\ prediction_history = <<>>
    /\ calibration_factor = One
    /\ ret = NoReturn

\* ------------------------------------------------------ connection lifecycle
\* sign_handler.connect(websocket), api.py line 368
Connect(c) ==
    /\ unit \in {"endpoint", "handler"}
    /\ pc[c] = "new"
    /\ \E ok \in BOOLEAN :
         /\ SetHandler(send_json(connect(Handler, c), c, ok))
         /\ out' = Delivered(ok, Event("connection", "", -1))
         /\ inbox' = [inbox EXCEPT ![c] = Delivered(ok, Event("connection", "", -1))]
    /\ pc' = [pc EXCEPT ![c] = "loop"]
    \* the client sends frames as lists of hands, or as flat landmark lists
    /\ \E w \in (IF unit = "endpoint" THEN {"hands", "flat"} ELSE {"hands"}) :
         wire' = [wire EXCEPT ![c] = w]
    /\ UNCHANGED <<unit, now, model, gesture_history, accepted, is_loaded, last_sent,
                   spoke>>
    /\ UNCHANGED <<rec_vars, ms_is_loaded, conf_vars, ret>>

\* receive_text raises WebSocketDisconnect: sign_handler.disconnect(websocket)
ClientDisconnect(c) ==
    /\ unit \in {"endpoint", "handler"}
    /\ pc[c] = "loop"
    /\ SetHandler(disconnect(Handler, c))
    /\ pc' = [pc EXCEPT ![c] = "closed"]
    \* the endpoint returns: the websocket object goes, and its attributes with it
    /\ gesture_history' = DictDel(gesture_history, c)
    /\ accepted' = [accepted EXCEPT ![c] = 0]
    /\ last_sent' = [last_sent EXCEPT ![c] = "None"]
    /\ wire' = [wire EXCEPT ![c] = "unset"]
    /\ inbox' = [inbox EXCEPT ![c] = <<>>]
    /\ spoke' = [spoke EXCEPT ![c] = FALSE]
    /\ out' = <<>>
    /\ UNCHANGED <<unit, now, model, is_loaded, rec_vars, ms_is_loaded, conf_vars, ret>>

\* ------------------------------------------------------ /ws/sign endpoint
\* the dictionary stage of api.py lines 418-434, on the history after the append
DictionaryResults(c, hist) ==
    IF Len(hist) >= MinDynamicFrames
    THEN \* a frame that is a list of hands makes recognize_dynamic_sign index a
         \* list with "x" (asl_dictionary.py line 637): TypeError
         IF wire[c] = "hands" THEN {Raise} ELSE DynamicResults \cup {Raise}
    ELSE \* recognize_static_sign(pose_data[0]): a landmark record is no hand of 21
         IF wire[c] = "hands" THEN StaticResults \cup {Raise} ELSE {Result("UNKNOWN", 0)}

\* InferenceService.predict as the endpoint calls it: only when is_loaded
SequenceResults(c, d) ==
    IF d = Raise THEN {NotAsked}
    ELSE IF d.conf < MLThreshold /\ is_loaded
         THEN (IF wire[c] = "hands" THEN MLResults ELSE {Result("Unknown", 0)})
         ELSE {NotAsked}

\* a sequence model that also wins ties
AfterSequenceModel_on_ties(d, m) ==
    IF d.conf < MLThreshold /\ m # NotAsked /\ m.conf >= d.conf THEN m ELSE d

\* api.py lines 436-446
AfterSequenceModel(d, m) ==
    IF d.conf < MLThreshold /\ m # NotAsked /\ m.conf > d.conf THEN m ELSE d

\* process_sign_language as the endpoint calls it: only below RuleThreshold
FallbackResults(c, s) ==
    IF s = Raise THEN {NotAsked}
    ELSE IF s.conf < RuleThreshold
         THEN (IF wire[c] = "hands" THEN RuleResults \cup {Raise}
                                    ELSE {Result("Unknown", 0)})
         ELSE {NotAsked}

\* api.py lines 448-452
AfterFallback(s, r) ==
    IF s.conf < RuleThreshold /\ r # NotAsked /\ r.conf > s.conf THEN r ELSE s

\* websocket_manager.send_json(websocket, error_response): the websocket was
\* never registered with websocket_manager, so a failed send changes nothing
SendErrorResponse(ok) == Delivered(ok, ErrorResponse)

\* except branches outside the while loop: the first failure ends the session
after_failure_ends_loop(c) == [pc EXCEPT ![c] = "closed"]

\* the except branches of lines 509-525 sit inside the while loop: after the
\* error response the loop takes the next message
after_failure(c) == pc

\* the history of a websocket, before its first frame created the attribute
HistoryOf(c) == IF c \in DOMAIN gesture_history THEN gesture_history[c] ELSE <<>>

\* a 'landmarks' or 'holistic' message that carries at least one hand, for which
\* the dictionary returns d, the sequence model m and the rule fallback r
ReceiveFrameWith(c, ok, d, m, r) ==
    /\ unit = "endpoint"
    /\ pc[c] = "loop"
    /\ IF d = Raise \/ r = Raise
       THEN /\ out' = SendErrorResponse(ok)
            /\ pc' = after_failure(c)
       ELSE LET f == AfterFallback(AfterSequenceModel(d, m), r)
            IN  \* a failed send_text raises into the except branch, whose
                \* send fails as well
                /\ out' = Delivered(ok, Event("prediction", f.label, f.conf))
                /\ pc' = pc
    /\ MayAccept(c, HistoryCap, MinDynamicFrames)
    /\ gesture_history' = DictSet(gesture_history, c,
                                  history_append(HistoryOf(c), accepted[c] + 1))
    /\ accepted' = [accepted EXCEPT ![c] = @ + 1]
    /\ spoke' = [spoke EXCEPT ![c] = TRUE]
    /\ UNCHANGED <<unit, now, active_connections, frame_buffers, last_predictions,
                   connection_data, model, wire, inbox, is_loaded, last_sent, rec_vars,
                   ms_is_loaded, conf_vars, ret>>

ReceiveFrame(c) ==
    /\ unit = "endpoint"
    /\ pc[c] = "loop"
    /\ MayAccept(c, HistoryCap, MinDynamicFrames)
    /\ \E ok \in BOOLEAN :
         \E d \in DictionaryResults(c, history_append(HistoryOf(c), accepted[c] + 1)) :
           \E m \in SequenceResults(c, d) :
             \E r \in FallbackResults(c, IF d = Raise THEN d ELSE AfterSequenceModel(d, m)) :
               ReceiveFrameWith(c, ok, d, m, r)

\* a 'landmarks' or 'holistic' message without hands: logged, nothing sent
ReceiveEmptyFrame(c) ==
    /\ unit = "endpoint"
    /\ pc[c] = "loop"
    /\ Shallow
    /\ out' = <<>>
    /\ spoke' = [spoke EXCEPT ![c] = TRUE]
    /\ UNCHANGED <<unit, now, active_connections, frame_buffers, last_predictions,
                   connection_data, model, pc, gesture_history, wire, inbox, accepted,
                   is_loaded, last_sent, rec_vars, ms_is_loaded, conf_vars, ret>>

\* TEXT_TO_SIGN_MAPPING, in the order of the dictionary literal: some of its
\* one-word entries, a phrase being the tuple of its characters
TEXT_TO_SIGN_MAPPING ==
    << [phrase |-> <<"h", "i">>,      gesture |-> "HELLO"],
       [phrase |-> <<"y", "e", "s">>, gesture |-> "YES"],
       [phrase |-> <<"n", "o">>,      gesture |-> "NO"],
       [phrase |-> <<"g", "o">>,      gesture |-> "GO"] >>

\* str.lower, on the letters the words below are written with
lower(w) == [i \in DOMAIN w |-> CASE w[i] = "H" -> "h"
                                  [] w[i] = "N" -> "n"
                                  [] OTHER      -> w[i]]

\* phrase in normalized
IsSubstring(p, w) ==
    \E k \in 0..(Len(w) - Len(p)) : SubSeq(w, k + 1, k + Len(p)) = p

\* text_to_sign on one word: the direct mapping, then the first phrase of the
\* mapping that occurs inside the word; "None" stands for None
text_to_sign(w) ==
    LET normalized == lower(w)
        direct  == {i \in DOMAIN TEXT_TO_SIGN_MAPPING :
                       TEXT_TO_SIGN_MAPPING[i].phrase = normalized}
        partial == {i \in DOMAIN TEXT_TO_SIGN_MAPPING :
                       IsSubstring(TEXT_TO_SIGN_MAPPING[i].phrase, normalized)}
        First(S) == CHOOSE i \in S : \A k \in S : i <= k
    IN  IF direct # {} THEN TEXT_TO_SIGN_MAPPING[First(direct)].gesture
        ELSE IF partial # {} THEN TEXT_TO_SIGN_MAPPING[First(partial)].gesture
        ELSE "None"

\* text_to_signs: the gestures of a text's words, a text being the sequence of
\* words that text.lower().strip().split() yields
RECURSIVE text_to_signs(_)
text_to_signs(text) ==
    IF text = <<>> THEN <<>>
    ELSE LET gesture == text_to_sign(lower(Head(text)))
         IN  (IF gesture # "None" THEN <<gesture>> ELSE <<>>) \o text_to_signs(Tail(text))

\* the "signs" list of an event, written as one string
RECURSIVE SignList(_)
SignList(signs) ==
    IF signs = <<>> THEN ""
    ELSE IF Len(signs) = 1 THEN signs[1]
    ELSE signs[1] \o " " \o SignList(Tail(signs))

\* the words clients speak
Words == { <<"h", "i">>, <<"k", "N", "o", "w">>, <<"c", "a", "t">> }

\* the texts of 'speech' messages: up to MaxWords words; <<>> is the empty text
Texts == UNION { [1..n -> Words] : n \in 0..MaxWords }

\* a 'speech' message with the given text: the signs found, an error when none
\* is found, nothing for an empty text
ReceiveSpeechWith(c, ok, text) ==
    /\ unit = "endpoint"
    /\ pc[c] = "loop"
    /\ Quiet
    /\ out' = IF text = <<>> THEN <<>>
              ELSE LET signs == text_to_signs(text)
                   IN  IF signs # <<>>
                       THEN Delivered(ok, Event("signs", SignList(signs), -1))
                       ELSE Delivered(ok, Event("error", "", -1))
    /\ spoke' = [spoke EXCEPT ![c] = TRUE]
    /\ UNCHANGED <<unit, now, active_connections, frame_buffers, last_predictions,
                   connection_data, model, pc, gesture_history, wire, inbox, accepted,
                   is_loaded, last_sent, rec_vars, ms_is_loaded, conf_vars, ret>>

ReceiveSpeech(c) ==
    /\ unit = "endpoint"
    /\ \E ok \in BOOLEAN, text \in Texts : ReceiveSpeechWith(c, ok, text)

\* a message with a top-level "landmarks" key (legacy format), api.py lines 484-500
ReceiveLegacy(c) ==
    /\ unit = "endpoint"
    /\ pc[c] = "loop"
    /\ Shallow
    /\ \E ok \in BOOLEAN, r \in LegacyResults \cup {Raise} :
         IF r = Raise
         THEN /\ out' = SendErrorResponse(ok)
              /\ pc' = after_failure(c)
         ELSE /\ out' = IF r.conf > LegacyThreshold /\ r.label # "Unknown"
                        THEN Delivered(ok, Event("prediction", r.label, r.conf))
                        ELSE <<>>
              /\ pc' = pc
    /\ spoke' = [spoke EXCEPT ![c] = TRUE]
    /\ UNCHANGED <<unit, now, active_connections, frame_buffers, last_predictions,
                   connection_data, model, gesture_history, wire, inbox, accepted,
                   is_loaded, last_sent, rec_vars, ms_is_loaded, conf_vars, ret>>

\* text that is no JSON, JSON that is no object, or an object of unknown format
ReceiveOther(c) ==
    /\ unit = "endpoint"
    /\ pc[c] = "loop"
    /\ Shallow
    /\ \E ok \in BOOLEAN, kind \in {"invalid json", "not an object", "unknown format"} :
         IF kind = "unknown format"
         THEN /\ out' = Delivered(ok, Event("error", "", -1))
              /\ pc' = pc
         ELSE /\ out' = SendErrorResponse(ok)
              /\ pc' = after_failure(c)
    /\ spoke' = [spoke EXCEPT ![c] = TRUE]
    /\ UNCHANGED <<unit, now, active_connections, frame_buffers, last_predictions,
                   connection_data, model, gesture_history, wire, inbox, accepted,
                   is_loaded, last_sent, rec_vars, ms_is_loaded, conf_vars, ret>>

\* InferenceService.load_model: the file loads or the load raises
LoadInferenceModel ==
    /\ unit \in {"endpoint", "adapter"}
    /\ \E loads \in BOOLEAN :
         /\ is_loaded' = loads
         \* the return value is observed where the adapter itself is driven
         /\ ret' = IF unit = "adapter"
                   THEN Returned("InferenceService.load_model", "", loads)
                   ELSE ret
    /\ out' = <<>>
    /\ UNCHANGED <<unit, now, active_connections, frame_buffers, last_predictions,
                   connection_data, model, pc, gesture_history, wire, inbox, spoke, accepted,
                   last_sent, rec_vars, ms_is_loaded, conf_vars>>

\* ------------------------------------------ handle_message / process_landmarks
Step(h, o, app) == [h |-> h, out |-> o, appended |-> app]

\* the except branches of process_landmarks and handle_message
SendError(h, ws, ok, app) == Step(send_json(h, ws, ok), Delivered(ok, Event("error", "", -1)), app)

\* lines 186-214: the candidate p has been recorded in last_predictions (h)
Emit(h, ws, p, db, ok) ==
    IF p.conf >= confidence_threshold
    THEN IF ok
         THEN LET cd == [h.cd EXCEPT ![ws].predictions_count = @ + 1]
                  ev == Event("prediction", p.label, p.conf)
              IN  \* insert_inference_log may raise: the except branch reports it
                  Step([h EXCEPT !.cd = cd],
                       IF db = "raise" THEN <<ev, Event("error", "", -1)>> ELSE <<ev>>,
                       TRUE)
         ELSE \* the failed send disconnects; connection_data[websocket] then
              \* raises KeyError, and the error send fails as well
              Step(disconnect(h, ws), <<>>, TRUE)
    ELSE Step(send_json(h, ws, ok), Delivered(ok, Event("low_confidence", "", p.conf)), TRUE)

\* an evaluation that does not wait for the buffer to reach its depth
Evaluate_at_any_depth(h, ws, t, p, db, ok) ==
    IF t - h.lp[ws].time >= prediction_cooldown
    THEN IF p = Raise
         THEN SendError(h, ws, ok, TRUE)
         ELSE Emit([h EXCEPT !.lp = DictSet(@, ws, [time |-> t, gesture |-> p.label])],
                   ws, p, db, ok)
    ELSE Step(h, <<>>, TRUE)

\* lines 168-184: the frame is in the buffer (h), the clock reads t
Evaluate(h, ws, t, p, db, ok) ==
    IF /\ Len(h.fb[ws]) >= min_frames_for_prediction
       /\ t - h.lp[ws].time >= prediction_cooldown
    THEN IF p = Raise
         THEN SendError(h, ws, ok, TRUE)
         ELSE Emit([h EXCEPT !.lp = DictSet(@, ws, [time |-> t, gesture |-> p.label])],
                   ws, p, db, ok)
    ELSE Step(h, <<>>, TRUE)

\* one buffer behind every session: a frame lands in all of them
buffer_frame_shared(h, ws, frame) ==
    [h EXCEPT !.fb = [x \in DOMAIN h.fb |-> deque_append(h.fb[x], frame, buffer_size)]]

\* line 166: self.frame_buffers[websocket].append(landmarks_array)
buffer_frame(h, ws, frame) ==
    [h EXCEPT !.fb = DictSet(@, ws, deque_append(h.fb[ws], frame, buffer_size))]

process_landmarks(h, ws, hands, frame, t, p, db, ok) ==
    IF ~model
    THEN Step(send_json(h, ws, ok), Delivered(ok, Event("error", "Model not loaded", -1)), FALSE)
    ELSE CASE hands = "absent"    -> Step(h, <<>>, FALSE)
           [] hands = "malformed" -> SendError(h, ws, ok, FALSE)
           [] hands = "none"      ->
                Step(send_json(h, ws, ok), Delivered(ok, Event("no_hands", "", -1)), FALSE)
           [] OTHER ->
                IF ws \notin DOMAIN h.fb
                THEN \* self.frame_buffers[websocket]: KeyError after a teardown
                     SendError(h, ws, ok, FALSE)
                ELSE Evaluate(buffer_frame(h, ws, frame), ws, t, p, db, ok)

\* does this frame bring the buffer to the depth of lines 172-173?
AtDepth(c) ==
    /\ model
    /\ c \in DOMAIN frame_buffers
    /\ Len(frame_buffers[c]) + 1 >= min_frames_for_prediction

\* will the evaluation of lines 172-173 run for this frame?
WillEvaluate(c, t) ==
    /\ AtDepth(c)
    /\ t - last_predictions[c].time >= prediction_cooldown

\* time.time() at line 169.  Below the evaluation depth the reading is compared
\* with nothing, so the clock is advanced only by the frames that use it.
ClockReadings(c) == IF AtDepth(c) THEN now..MaxTime ELSE {now}

\* what SignLanguageModel.predict returns for the frame, where it is asked
PredictRange(c, t) == IF WillEvaluate(c, t) THEN PredictResults \cup {Raise} ELSE {Raise}

\* what insert_inference_log does, where it is called
LogRange(c, t, p, ok) ==
    IF WillEvaluate(c, t) /\ p # Raise /\ p.conf >= confidence_threshold /\ ok
    THEN {"ok", "raise"}
    ELSE {"ok"}

\* handle_message with a 'landmarks' message that carries hands, received when
\* the clock reads t, of a gesture the model takes for p
HandleFrameWith(c, ok, t, p, db) ==
    /\ unit = "handler"
    /\ pc[c] = "loop"
    /\ MayAccept(c, buffer_size, min_frames_for_prediction)
    /\ LET r == process_landmarks(Handler, c, "some", accepted[c] + 1, t, p, db, ok)
       IN  /\ SetHandler(r.h)
           /\ out' = r.out
           /\ accepted' = [accepted EXCEPT ![c] = IF r.appended THEN @ + 1 ELSE @]
           /\ now' = IF model /\ c \in DOMAIN frame_buffers THEN t ELSE now
           /\ last_sent' = IF r.out # <<>> /\ r.out[1].type = "prediction"
                           THEN [last_sent EXCEPT ![c] = r.out[1].sign]
                           ELSE last_sent
    /\ spoke' = [spoke EXCEPT ![c] = TRUE]
    /\ UNCHANGED <<unit, model, pc, gesture_history, wire, inbox, is_loaded, rec_vars,
                   ms_is_loaded, conf_vars, ret>>

HandleFrame(c) ==
    /\ unit = "handler"
    /\ pc[c] = "loop"
    /\ MayAccept(c, buffer_size, min_frames_for_prediction)
    /\ \E ok \in BOOLEAN, t \in ClockReadings(c) :
         \E p \in PredictRange(c, t) :
           \E db \in LogRange(c, t, p, ok) :
             HandleFrameWith(c, ok, t, p, db)

\* handle_message with a 'landmarks' message without hands, without the
\* multiHandLandmarks key, or with landmark records that are no objects
HandleHandlessFrameWith(c, ok, hands) ==
    /\ unit = "handler"
    /\ pc[c] = "loop"
    /\ Shallow
    /\ LET r == process_landmarks(Handler, c, hands, 0, now, Raise, "ok", ok)
       IN  /\ SetHandler(r.h)
           /\ out' = r.out
    /\ spoke' = [spoke EXCEPT ![c] = TRUE]
    /\ UNCHANGED <<unit, now, model, pc, gesture_history, wire, inbox, accepted, is_loaded,
                   last_sent, rec_vars, ms_is_loaded, conf_vars, ret>>

HandleHandlessFrame(c) ==
    /\ unit = "handler"
    /\ \E ok \in BOOLEAN, hands \in {"none", "absent", "malformed"} :
         HandleHandlessFrameWith(c, ok, hands)

\* handle_message with any other message
HandleOther(c) ==
    /\ unit = "handler"
    /\ pc[c] = "loop"
    /\ Shallow
    /\ \E ok \in BOOLEAN,
          kind \in {"ping", "speech", "spelling", "feedback", "unknown", "invalid json"} :
         LET ev == CASE kind = "ping"     -> Event("pong", "", -1)
                     [] kind = "speech"   -> Event("sign_sequence", "", -1)
                     [] kind = "spelling" -> Event("finger_spelling", "", -1)
                     [] kind = "feedback" -> Event("feedback_received", "", -1)
                     [] OTHER             -> Event("error", "", -1)
         IN  IF kind = "unknown" \/ (kind = "feedback" /\ c \notin DOMAIN connection_data)
             THEN /\ out' = <<>>
                  /\ UNCHANGED <<active_connections, frame_buffers, last_predictions,
                                 connection_data>>
             ELSE /\ out' = Delivered(ok, ev)
                  /\ SetHandler(send_json(Handler, c, ok))
    /\ spoke' = [spoke EXCEPT ![c] = TRUE]
    /\ UNCHANGED <<unit, now, model, pc, gesture_history, wire, inbox, accepted, is_loaded,
                   last_sent, rec_vars, ms_is_loaded, conf_vars, ret>>

\* ------------------------------------------------------ AdvancedASLRecognizer
\* _analyze_gesture returns None or a gesture above min_confidence
Candidates == {Gesture("NO", 80), Gesture("HELLO", 100)}

\* _analyze_gesture raises
AnalysisRaises == Gesture("raise", -1)

Recognizer == [last_recognized |-> last_recognized,
               last_recognition_time |-> last_recognition_time,
               gesture_history |-> recognizer_history]

\* a filter whose suppression restarts the cooldown
apply_temporal_filter_restarts(r, g, t) ==
    IF /\ r.last_recognized # NoGesture
       /\ g.sign = r.last_recognized.sign
       /\ t - r.last_recognition_time < recognition_cooldown
    THEN [gesture |-> NoGesture, rec |-> [r EXCEPT !.last_recognition_time = t]]
    ELSE [gesture |-> g,
          rec |-> [last_recognized |-> g,
                   last_recognition_time |-> t,
                   gesture_history |-> deque_append(r.gesture_history, g, GestureHistoryMaxLen)]]

\* a filter that still suppresses when exactly the cooldown has passed
apply_temporal_filter_inclusive(r, g, t) ==
    IF /\ r.last_recognized # NoGesture
       /\ g.sign = r.last_recognized.sign
       /\ t - r.last_recognition_time <= recognition_cooldown
    THEN [gesture |-> NoGesture, rec |-> r]
    ELSE [gesture |-> g,
          rec |-> [last_recognized |-> g,
                   last_recognition_time |-> t,
                   gesture_history |-> deque_append(r.gesture_history, g, GestureHistoryMaxLen)]]

\* _apply_temporal_filter(gesture) when time.time() reads t
apply_temporal_filter(r, g, t) ==
    IF /\ r.last_recognized # NoGesture
       /\ g.sign = r.last_recognized.sign
       /\ t - r.last_recognition_time < recognition_cooldown
    THEN [gesture |-> NoGesture, rec |-> r]
    ELSE [gesture |-> g,
          rec |-> [last_recognized |-> g,
                   last_recognition_time |-> t,
                   gesture_history |-> deque_append(r.gesture_history, g, GestureHistoryMaxLen)]]

\* what _analyze_gesture may return for the frame about to be appended: a
\* gesture in the frames up to MaxOverflow beyond the depth it needs, and in
\* runs that have emitted fewer than MaxEmissions
AnalysisResults ==
    IF Len(deque_append(gesture_buffer, 0, BufferMaxLen)) < min_frames_for_static
    THEN {NoGesture}
    ELSE (IF emitted < MaxEmissions /\ frames_seen < min_frames_for_static + MaxOverflow
          THEN Candidates ELSE {})
         \cup {NoGesture, AnalysisRaises}

\* process_frame(frame_data) of a frame that _analyze_gesture takes for g,
\* filtered when the clock reads t
ProcessFrameWith(g, t) ==
    /\ unit = "advanced"
    /\ frames_seen < BufferMaxLen + MaxOverflow
    /\ gesture_buffer' = deque_append(gesture_buffer, frames_seen + 1, BufferMaxLen)
    /\ frames_seen' = frames_seen + 1
    /\ IF g.confidence < 0
       THEN /\ ret' = IF g = NoGesture THEN Returned("process_frame", g, NoGesture)
                                       ELSE Raised("process_frame", g)
            /\ t = now
            /\ UNCHANGED <<now, last_recognized, last_recognition_time,
                           recognizer_history, emitted, last_emission>>
       ELSE LET f == apply_temporal_filter(Recognizer, g, t)
            IN  /\ now' = t
                /\ last_recognized' = f.rec.last_recognized
                /\ last_recognition_time' = f.rec.last_recognition_time
                /\ recognizer_history' = f.rec.gesture_history
                /\ emitted' = IF f.gesture = NoGesture THEN emitted ELSE emitted + 1
                /\ last_emission' =
                     IF f.gesture = NoGesture
                     THEN [last_emission EXCEPT !.suppressed = TRUE]
                     ELSE [sign |-> f.gesture.sign, time |-> t,
                           suppressed |-> last_emission.suppressed
                                          /\ last_emission.sign = f.gesture.sign]
                /\ ret' = Returned("process_frame", g, f.gesture)
    /\ UNCHANGED <<unit, ws_vars, is_loaded, current_state, ms_is_loaded, conf_vars>>

ProcessFrame ==
    /\ unit = "advanced"
    /\ \E g \in AnalysisResults :
         \E t \in (IF g.confidence < 0 THEN {now} ELSE now..MaxTime) :
           ProcessFrameWith(g, t)

\* reset(): what the recognizer emitted before counts for nothing afterwards
Reset ==
    /\ unit = "advanced"
    /\ frames_seen > 0
    /\ gesture_buffer' = <<>>
    /\ recognizer_history' = <<>>
    /\ current_state' = "idle"
    /\ last_recognized' = NoGesture
    /\ last_recognition_time' = 0
    /\ frames_seen' = 0
    /\ last_emission' = NoEmission
    /\ ret' = NoReturn
    /\ UNCHANGED <<unit, now, ws_vars, is_loaded, emitted, ms_is_loaded, conf_vars>>

\* ------------------------------------------------- sequence-model adapters
\* InferenceService.predict(landmarks)
InferencePredict ==
    /\ unit = "adapter"
    /\ \E landmarks \in {"empty", "hands"} :
         IF ~is_loaded
         THEN ret' = Raised("InferenceService.predict", landmarks)
         ELSE IF landmarks = "empty"
              THEN ret' = Returned("InferenceService.predict", landmarks, Result("Unknown", 0))
              ELSE \E m \in MLResults :
                     ret' = Returned("InferenceService.predict", landmarks, m)
    /\ UNCHANGED <<unit, now, ws_vars, is_loaded, rec_vars, ms_is_loaded, conf_vars>>

\* ModelService.predict(landmarks): an empty list is a frame of zeros to the
\* model; what the model raises is caught and answered with ("Unknown", 0.0)
ModelServicePredict ==
    /\ unit = "adapter"
    /\ \E landmarks \in {"empty", "hands"} :
         IF ~ms_is_loaded
         THEN ret' = Raised("ModelService.predict", landmarks)
         ELSE \E m \in MLResults :
                ret' = Returned("ModelService.predict", landmarks, m)
    /\ UNCHANGED <<unit, now, ws_vars, is_loaded, rec_vars, ms_is_loaded, conf_vars>>

\* ModelService.load_model(model_path)
LoadModelService ==
    /\ unit = "adapter"
    /\ \E outcome \in {"missing", "loads", "raises"} :
         /\ ms_is_loaded' = CASE outcome = "missing" -> ms_is_loaded
                              [] outcome = "loads"   -> TRUE
                              [] OTHER               -> FALSE
         /\ ret' = Returned("ModelService.load_model", outcome, outcome = "loads")
    /\ UNCHANGED <<unit, now, ws_vars, is_loaded, rec_vars, conf_vars>>

\* ------------------------------------------------------------ pure functions
Min(a, b) == IF a <= b THEN a ELSE b

\* dict.get(key, default)
get(d, key, default) == IF key \in DOMAIN d THEN d[key] ELSE default

\* landmark records as clients send them: coordinates inside and outside
\* [0, 1], records that lack a coordinate
LandmarkPool ==
    << [x |-> 50, y |-> 30, z |-> 0],
       [x |-> -50, y |-> 150, z |-> -70],
       [y |-> 100],
       [x |-> 150, y |-> -20, z |-> 200],
       [x |-> 0, z |-> 130] >>

\* the landmark lists given to normalize_landmarks: n records taken from the
\* pool in turn, from any starting point
LandmarkLists ==
    { [i \in 1..n |-> LandmarkPool[((i + s) % Len(LandmarkPool)) + 1]] :
        n \in 0..(HandLandmarks + MaxExtra), s \in 0..(Len(LandmarkPool) - 1) }

\* a normalize_landmarks that fills a short list up to the 21 of a hand
normalize_landmarks_padded(landmarks) ==
    [i \in 1..HandLandmarks |->
        IF i <= Len(landmarks)
        THEN [x |-> Max(0, Min(One, get(landmarks[i], "x", 0))),
              y |-> Max(0, Min(One, get(landmarks[i], "y", 0))),
              z |-> get(landmarks[i], "z", 0)]
        ELSE [x |-> 0, y |-> 0, z |-> 0]]

\* normalize_landmarks(landmarks)
normalize_landmarks(landmarks) ==
    IF landmarks = <<>> THEN <<>>
    ELSE LET kept == IF Len(landmarks) # HandLandmarks
                     THEN SubSeq(landmarks, 1, Min(HandLandmarks, Len(landmarks)))
                     ELSE landmarks
         IN  [i \in 1..Len(kept) |->
                [x |-> Max(0, Min(One, get(kept[i], "x", 0))),
                 y |-> Max(0, Min(One, get(kept[i], "y", 0))),
                 z |-> get(kept[i], "z", 0)]]

NormalizeLandmarks ==
    /\ unit = "library"
    /\ ret = NoReturn
    /\ \E landmarks \in LandmarkLists :
         ret' = Returned("normalize_landmarks", landmarks, normalize_landmarks(landmarks))
    /\ UNCHANGED <<unit, now, ws_vars, is_loaded, rec_vars, ms_is_loaded, conf_vars>>

\* ---------------------------------------------------------- ConfidenceSystem
\* float infinity; numbers are hundredths, far below it
Inf == 1000000

IsInf(a) == a >= Inf \/ a <= -Inf

\* float multiplication and subtraction
Times(a, b) ==
    IF IsInf(a) \/ IsInf(b)
    THEN (IF (a < 0) = (b < 0) THEN Inf ELSE -Inf)
    ELSE (a * b) \div One

Minus(a, b) == IF IsInf(b) THEN -b ELSE IF IsInf(a) THEN a ELSE a - b

\* p * np.log(p + 1e-10), for the probabilities of ConfidenceCalls; for p = 1.0 it is 1e-10,
\* written as the smallest positive number
PLogP(p) == CASE p = 0   -> 0
              [] p = 20  -> -32
              [] p = 30  -> -36
              [] p = 50  -> -35
              [] p = 80  -> -18
              [] p = 100 -> 1

\* np.log(1.0 / n)
LogOfInverse(n) == CASE n = 1 -> 0
                     [] n = 2 -> -69
                     [] n = 3 -> -110

RECURSIVE SumPLogP(_)
SumPLogP(predictions) ==
    IF predictions = <<>> THEN 0
    ELSE PLogP(Head(predictions)) + SumPLogP(Tail(predictions))

\* np.argmax: the first index of the largest entry
argmax(predictions) ==
    CHOOSE i \in DOMAIN predictions :
        /\ \A k \in DOMAIN predictions : predictions[k] <= predictions[i]
        /\ \A k \in 1..(i - 1) : predictions[k] < predictions[i]

\* entropy / max_entropy; max_entropy is -0.0 for a vector of one entry, and a
\* nonzero float divided by it an infinity
normalized_entropy(predictions) ==
    LET entropy     == -SumPLogP(predictions)
        max_entropy == -LogOfInverse(Len(predictions))
    IN  IF max_entropy = 0
        THEN (IF entropy < 0 THEN Inf ELSE -Inf)
        ELSE (entropy * One) \div max_entropy

context_modifiers(context) ==
    CASE context = "single_hand" -> 100
      [] context = "two_hands"   -> 95
      [] context = "moving_sign" -> 90
      [] context = "static_sign" -> 105
      [] OTHER                   -> 100

\* _calculate_landmark_stability, of landmarks without hands, with a hand of
\* fewer than 21 landmarks, or with whole hands
calculate_landmark_stability(landmarks) ==
    CASE landmarks = "no hands"   -> 50
      [] landmarks = "short hand" -> 70
      [] OTHER                    -> 100

\* _apply_temporal_smoothing(current_idx, current_confidence)
apply_temporal_smoothing(history, current_idx, current_confidence) ==
    LET n      == Len(history)
        recent == SubSeq(history, Max(1, n - 2), n)
        count  == Cardinality({i \in DOMAIN recent : recent[i].idx = current_idx})
    IN  IF count * One >= Consistent * Len(recent)
        THEN Min(Times(current_confidence, Boost), One)
        ELSE IF count * One <= Inconsistent * Len(recent)
        THEN Times(current_confidence, Damp)
        ELSE current_confidence

\* _update_history(idx, confidence)
update_history(history, idx, confidence) ==
    LET h == Append(history, [idx |-> idx, confidence |-> confidence])
    IN  IF Len(h) > history_size THEN Tail(h) ELSE h

\* adjusted_confidence of calculate_confidence where the temporal smoothing
\* begins: the context modifier, the entropy penalty and the landmark stability
\* applied to the largest probability
adjusted_confidence(predictions, landmarks, context) ==
    LET base     == predictions[argmax(predictions)]
        adjusted == Times(base, context_modifiers(context))
        penalty  == Minus(One, Times(normalized_entropy(predictions), EntropyWeight))
        weighed  == Times(adjusted, penalty)
    IN  IF landmarks # "none"
        THEN Times(weighed, calculate_landmark_stability(landmarks))
        ELSE weighed

\* the final_confidence of calculate_confidence
final_confidence(predictions, landmarks, context, history, calibration) ==
    LET stable   == adjusted_confidence(predictions, landmarks, context)
        smoothed == IF history # <<>>
                    THEN apply_temporal_smoothing(history, argmax(predictions), stable)
                    ELSE stable
    IN  Min(Times(smoothed, calibration), One)

\* the calls of calculate_confidence: probabilities, landmarks (none, or a hand
\* of fewer than 21 landmarks) and context
ConfidenceCalls ==
    { [predictions |-> <<100>>,         landmarks |-> "none",       context |-> "single_hand"],
      [predictions |-> <<50, 50>>,      landmarks |-> "none",       context |-> "static_sign"],
      [predictions |-> <<50, 50>>,      landmarks |-> "short hand", context |-> "moving_sign"],
      [predictions |-> <<30, 20, 50>>,  landmarks |-> "none",       context |-> "moving_sign"] }

\* ConfidenceSystem.calculate_confidence(predictions, landmarks, context)
CalculateConfidenceWith(a) ==
    /\ unit = "confidence"
    /\ Len(prediction_history) < MaxCalls
    /\ LET final == final_confidence(a.predictions, a.landmarks, a.context,
                                     prediction_history, calibration_factor)
       IN  /\ prediction_history' =
                  update_history(prediction_history, argmax(a.predictions), final)
           /\ ret' = Returned("calculate_confidence", a,
                              [idx |-> argmax(a.predictions), confidence |-> final])
    /\ UNCHANGED <<unit, now, ws_vars, is_loaded, rec_vars, ms_is_loaded,
                   calibration_factor>>

CalculateConfidence ==
    /\ unit = "confidence"
    /\ \E a \in ConfidenceCalls : CalculateConfidenceWith(a)

\* ConfidenceSystem.calibrate(true_positives, false_positives), the lists
\* having the given means; the system is calibrated before a series of calls
Calibrate ==
    /\ unit = "confidence"
    /\ prediction_history = <<>>
    /\ \E tp_mean \in {0, 90, 300}, fp_mean \in {-300, 90, 300} :
         calibration_factor' =
            IF tp_mean > 0
            THEN Max(MinCalibration,
                     Min(MaxCalibration, One + ((tp_mean - fp_mean) * 10) \div One))
            ELSE calibration_factor
    /\ UNCHANGED <<unit, now, ws_vars, is_loaded, rec_vars, ms_is_loaded,
                   prediction_history, ret>>

\* ConfidenceSystem.reset_history()
ResetHistory ==
    /\ unit = "confidence"
    /\ prediction_history' = <<>>
    /\ UNCHANGED <<unit, now, ws_vars, is_loaded, rec_vars, ms_is_loaded,
                   calibration_factor, ret>>

\* ------------------------------------------------------------- sign matchers
\* a run of the library makes one call of a function that keeps no state
Idle == unit = "library" /\ ret = NoReturn

Call(f, arg, value) ==
    /\ Idle
    /\ ret' = Returned(f, arg, value)
    /\ UNCHANGED <<unit, now, ws_vars, is_loaded, rec_vars, ms_is_loaded, conf_vars>>

Fingers == <<"thumb", "index", "middle", "ring", "pinky">>

\* the finger-extended vectors of a hand: which of the five fingers are extended
FingerVectors == [1..Len(Fingers) -> BOOLEAN]

\* x in text, for the texts that occur as positions, movements and orientations
Occurs(x, text) ==
    \/ x = text
    \/ <<x, text>> \in { <<"high", "high_left">>, <<"left", "high_left">>,
                         <<"middle", "middle_center">>, <<"center", "middle_center">>,
                         <<"wave", "wave side to side">>, <<"tap", "tap wrist">>,
                         <<"circular", "circular motion">> }

\* no dict entry, no attribute value
None == ""
NoFingers == [k \in {} |-> TRUE]

\* ASLRecognizer._get_finger_states of a hand of 21 landmarks whose fingers are
\* extended as v says
finger_states_of(v) ==
    [k \in {Fingers[i] : i \in DOMAIN Fingers} \cup {"all"} |->
        IF k = "all" THEN \A i \in DOMAIN Fingers : v[i]
        ELSE v[CHOOSE i \in DOMAIN Fingers : Fingers[i] = k]]

\* sign definitions: HELLO and YES of ASL_DICTIONARY, a two-handed entry, and
\* entries of type static, of which the dictionary literal has none
SignDefinition(n, t, m, fs, o, p) ==
    [name |-> n, type |-> t, movement |-> m, finger_states |-> fs,
     hand_orientation |-> o, relative_position |-> p]

SignPool ==
    << SignDefinition("HELLO", "dynamic", "wave side to side", [all |-> TRUE],
                      "Palm forward", None),
       SignDefinition("YES", "dynamic", "nod up and down", [all |-> FALSE], None, None),
       SignDefinition("WAVE", "two_handed", "wave side to side", NoFingers, None, None),
       SignDefinition("ONE", "static", None, [index |-> TRUE], "palm_forward", None),
       SignDefinition("TWO", "static", None, [index |-> TRUE, middle |-> TRUE],
                      None, "high"),
       SignDefinition("UP", "static", None, NoFingers, "palm_forward", None) >>

\* hands with no finger, the index, index and middle, and all fingers extended
SomeHands ==
    { [i \in DOMAIN Fingers |-> Fingers[i] \in shown] :
        shown \in { {}, {"index"}, {"index", "middle"},
                    {"thumb", "index", "middle", "ring", "pinky"} } }

\* what _extract_hand_features returns
HandFeatures ==
    { [finger_states |-> fs, hand_orientation |-> o, relative_position |-> p] :
        fs \in {finger_states_of(v) : v \in SomeHands} \cup {NoFingers},
        o \in {"palm_forward", "palm_side"},
        p \in {"high_left"} }

\* what _extract_motion_features returns; {} for a sequence of one frame
MotionFeatures ==
    { [movement_type |-> t, movement_speed |-> v] :
        t \in {"static", "small_movement", "large_movement"},
        v \in {5, 20} }
    \cup {[k \in {} |-> None]}

\* ASLRecognizer._match_static_sign(features, sign_def)
match_static_sign(features, sign_def) ==
    LET fs      == sign_def.finger_states
        asked   == DOMAIN fs # {} /\ "finger_states" \in DOMAIN features
        matched == {k \in DOMAIN fs : /\ k \in DOMAIN features.finger_states
                                      /\ features.finger_states[k] = fs[k]}
        fingers == IF asked THEN (Cardinality(matched) * One) \div Cardinality(DOMAIN fs)
                   ELSE 0
        facing  == sign_def.hand_orientation # None /\ "hand_orientation" \in DOMAIN features
        palm    == IF facing /\ features.hand_orientation = sign_def.hand_orientation
                   THEN One ELSE 0
        placed  == sign_def.relative_position # None /\ "relative_position" \in DOMAIN features
        place   == IF placed /\ Occurs(sign_def.relative_position, features.relative_position)
                   THEN 80 ELSE 0
        factors == (IF asked THEN 1 ELSE 0) + (IF facing THEN 1 ELSE 0)
                   + (IF placed THEN 1 ELSE 0)
    IN  IF factors > 0 THEN (fingers + palm + place) \div factors ELSE 0

\* ASLRecognizer._match_dynamic_sign(features, sign_def)
match_dynamic_sign(features, sign_def) ==
    LET moves == sign_def.movement # None /\ "movement_type" \in DOMAIN features
        score == IF ~moves THEN 0
                 ELSE IF /\ Occurs("circular", sign_def.movement)
                         /\ Occurs("circular", features.movement_type)
                 THEN One
                 ELSE IF Occurs("wave", sign_def.movement) /\ features.movement_speed > 10
                 THEN 80
                 ELSE IF /\ Occurs("tap", sign_def.movement)
                         /\ Occurs("small_movement", features.movement_type)
                 THEN 70
                 ELSE 0
    IN  IF moves THEN score ELSE 0

\* the test of the loop with >= in place of >: a later entry of equal
\* confidence replaces the best match
keep_better_or_equal(best, sign_name, confidence) ==
    IF confidence >= best.conf /\ confidence > 0 THEN Result(sign_name, confidence)
    ELSE best

\* if confidence > best_confidence: best_match = sign_name
keep_better(best, sign_name, confidence) ==
    IF confidence > best.conf THEN Result(sign_name, confidence) ELSE best

\* the loop of recognize_static_sign and of recognize_dynamic_sign over the
\* dictionary, in the order of its entries
RECURSIVE best_static_sign(_, _, _)
best_static_sign(dictionary, features, best) ==
    IF dictionary = <<>> THEN best
    ELSE LET sign_def == Head(dictionary)
         IN  best_static_sign(Tail(dictionary), features,
                 IF sign_def.type = "static"
                 THEN keep_better(best, sign_def.name, match_static_sign(features, sign_def))
                 ELSE best)

RECURSIVE best_dynamic_sign(_, _, _)
best_dynamic_sign(dictionary, features, best) ==
    IF dictionary = <<>> THEN best
    ELSE LET sign_def == Head(dictionary)
         IN  best_dynamic_sign(Tail(dictionary), features,
                 IF sign_def.type \in {"dynamic", "two_handed"}
                 THEN keep_better(best, sign_def.name, match_dynamic_sign(features, sign_def))
                 ELSE best)

\* recognize_static_sign on the features of a hand of 21 landmarks
recognize_static_sign(dictionary, features) ==
    best_static_sign(dictionary, features, Result("UNKNOWN", 0))

\* recognize_dynamic_sign on the motion features of five frames or more
recognize_dynamic_sign(dictionary, features) ==
    best_dynamic_sign(dictionary, features, Result("UNKNOWN", 0))

\* the dictionaries: CatalogSize entries of the pool, in any order
Catalogs ==
    { d \in [1..CatalogSize -> DOMAIN SignPool] :
        \A i \in DOMAIN d : \A k \in DOMAIN d : i # k => d[i] # d[k] }

Entries(d) == [i \in DOMAIN d |-> SignPool[d[i]]]

MatchStaticSign ==
    /\ Idle
    /\ \E i \in DOMAIN SignPool, features \in HandFeatures :
          Call("_match_static_sign", [features |-> features, sign_def |-> SignPool[i]],
               match_static_sign(features, SignPool[i]))

MatchDynamicSign ==
    /\ Idle
    /\ \E i \in DOMAIN SignPool, features \in MotionFeatures :
          Call("_match_dynamic_sign", [features |-> features, sign_def |-> SignPool[i]],
               match_dynamic_sign(features, SignPool[i]))

RecognizeStaticSign ==
    /\ Idle
    /\ \E d \in Catalogs, features \in HandFeatures :
          Call("recognize_static_sign", [dictionary |-> Entries(d), features |-> features],
               recognize_static_sign(Entries(d), features))

RecognizeDynamicSign ==
    /\ Idle
    /\ \E d \in Catalogs, features \in MotionFeatures :
          Call("recognize_dynamic_sign", [dictionary |-> Entries(d), features |-> features],
               recognize_dynamic_sign(Entries(d), features))

\* ------------------------------------- AdvancedASLRecognizer: pattern matching
\* a pattern without the "repeat" key
NoRepeat == -1

Pattern(n, t, f, s, p, m, r) ==
    [name |-> n, type |-> t, fingers |-> f, shape |-> s, palm |-> p, motion |-> m,
     repeat |-> r]

\* patterns of _get_default_patterns (HELLO, whose "fingers" is no list, YES,
\* FOOD, NO, I_LOVE_YOU, HELP) and one more static pattern
PatternPool ==
    << Pattern("HELLO", "dynamic", <<>>, None, "forward", "wave", NoRepeat),
       Pattern("YES", "dynamic", <<>>, "fist", None, "nod", NoRepeat),
       Pattern("FOOD", "dynamic", <<>>, None, None, "to_mouth", 2),
       Pattern("NO", "static", <<100, 100, 0, 0, 0>>, None, None, "snap", NoRepeat),
       Pattern("I_LOVE_YOU", "static", <<100, 0, 0, 100, 100>>, None, None, None, NoRepeat),
       Pattern("HELP", "static", <<>>, None, None, None, NoRepeat),
       Pattern("PEACE", "static", <<0, 100, 100, 0, 0>>, "peace", "vertical", None,
               NoRepeat) >>

\* AdvancedASLRecognizer._get_finger_states of a hand whose fingers are extended
\* as v says: 1.0 or 0.0 for each finger
advanced_finger_states(v) == [i \in DOMAIN v |-> IF v[i] THEN One ELSE 0]

\* AdvancedASLRecognizer._get_hand_shape
advanced_get_hand_shape(v) ==
    LET finger_states == advanced_finger_states(v)
        open_fingers  == Cardinality({i \in DOMAIN finger_states : finger_states[i] > 50})
    IN  CASE open_fingers = 0 -> "fist"
          [] open_fingers = 5 -> "open"
          [] open_fingers = 1 -> "pointing"
          [] open_fingers = 2 -> "peace"
          [] OTHER            -> "partial"

\* what AdvancedASLRecognizer._extract_hand_features returns; {} for a hand of
\* fewer than 21 landmarks
PatternFeatures ==
    { [finger_states |-> advanced_finger_states(v), palm_orientation |-> o,
       hand_shape |-> advanced_get_hand_shape(v)] :
        v \in SomeHands, o \in {"vertical", "horizontal"} }
    \cup {[k \in {} |-> None]}

\* what AdvancedASLRecognizer._extract_motion_features returns
PatternMotions ==
    { [motion_type |-> t, direction |-> d, repetitions |-> r] :
        t \in {"wave", "linear", "complex"}, d \in {"right", "up"}, r \in {0, 3} }

Abs(a) == IF a < 0 THEN -a ELSE a

\* AdvancedASLRecognizer._match_static_pattern(features, pattern)
match_static_pattern(features, pattern) ==
    LET fingered == "finger_states" \in DOMAIN features
        compared == IF fingered
                    THEN {i \in DOMAIN pattern.fingers : i <= Len(features.finger_states)}
                    ELSE {}
        agreeing == {i \in compared :
                        Abs(features.finger_states[i] - pattern.fingers[i]) < 30}
        shaped   == pattern.shape # None /\ "hand_shape" \in DOMAIN features
        palmed   == pattern.palm # None /\ "palm_orientation" \in DOMAIN features
        matches  == Cardinality(agreeing)
                    + (IF shaped /\ pattern.shape = features.hand_shape THEN 2 ELSE 0)
                    + (IF palmed /\ Occurs(pattern.palm, features.palm_orientation)
                       THEN 1 ELSE 0)
        total    == Cardinality(compared) + (IF shaped THEN 2 ELSE 0)
                    + (IF palmed THEN 1 ELSE 0)
    IN  IF total > 0 THEN (matches * One) \div total ELSE 0

motion_map(motion) ==
    CASE motion \in {"forward", "tap", "nod"} -> "linear"
      [] OTHER -> motion

direction_map == [forward |-> "right", down |-> "down", up |-> "up"]

\* AdvancedASLRecognizer._match_dynamic_pattern(features, pattern)
match_dynamic_pattern(features, pattern) ==
    LET moving   == pattern.motion # None /\ "motion_type" \in DOMAIN features
        directed == /\ pattern.motion # None /\ "direction" \in DOMAIN features
                    /\ pattern.motion \in DOMAIN direction_map
        repeated == pattern.repeat # NoRepeat /\ "repetitions" \in DOMAIN features
        matches  == (IF moving /\ motion_map(pattern.motion) = features.motion_type
                     THEN 2 ELSE 0)
                    + (IF directed /\ direction_map[pattern.motion] = features.direction
                       THEN 1 ELSE 0)
                    + (IF repeated /\ Abs(pattern.repeat - features.repetitions) <= 1
                       THEN 1 ELSE 0)
        total    == (IF moving THEN 2 ELSE 0) + (IF directed THEN 1 ELSE 0)
                    + (IF repeated THEN 1 ELSE 0)
    IN  IF total > 0 THEN (matches * One) \div total ELSE 0

\* the loop of _recognize_static_gesture over asl_signs
RECURSIVE best_static_pattern(_, _, _)
best_static_pattern(asl_signs, features, best) ==
    IF asl_signs = <<>> THEN best
    ELSE LET pattern == Head(asl_signs)
         IN  best_static_pattern(Tail(asl_signs), features,
                 IF pattern.type = "static"
                 THEN keep_better(best, pattern.name, match_static_pattern(features, pattern))
                 ELSE best)

\* _recognize_static_gesture: the best match, should it exceed min_confidence;
\* the label "None" with confidence -1 stands for the return value None
recognize_static_gesture(asl_signs, features) ==
    LET best == best_static_pattern(asl_signs, features, Result("None", 0))
    IN  IF best.conf > min_confidence THEN best ELSE Result("None", -1)

PatternCatalogs ==
    { d \in [1..CatalogSize -> DOMAIN PatternPool] :
        \A i \in DOMAIN d : \A k \in DOMAIN d : i # k => d[i] # d[k] }

Patterns(d) == [i \in DOMAIN d |-> PatternPool[d[i]]]

MatchStaticPattern ==
    /\ Idle
    /\ \E i \in DOMAIN PatternPool, features \in PatternFeatures :
          Call("_match_static_pattern", [features |-> features, pattern |-> PatternPool[i]],
               match_static_pattern(features, PatternPool[i]))

MatchDynamicPattern ==
    /\ Idle
    /\ \E i \in DOMAIN PatternPool, features \in PatternMotions :
          Call("_match_dynamic_pattern", [features |-> features, pattern |-> PatternPool[i]],
               match_dynamic_pattern(features, PatternPool[i]))

\* _recognize_static_gesture on a buffer whose average hand has 21 landmarks
RecognizeStaticGesture ==
    /\ Idle
    /\ \E d \in PatternCatalogs, features \in PatternFeatures \ {[k \in {} |-> None]} :
          Call("_recognize_static_gesture",
               [dictionary |-> Patterns(d), features |-> features],
               recognize_static_gesture(Patterns(d), features))

\* ASLRecognizer._get_hand_shape of a hand whose fingers are extended as v says
get_hand_shape(v) ==
    LET states == finger_states_of(v)
    IN  IF states["all"] THEN "open_hand"
        ELSE IF \A k \in DOMAIN states : ~states[k] THEN "fist"
        ELSE IF states["index"] /\ ~states["middle"] THEN "pointing"
        ELSE IF states["index"] /\ states["middle"] /\ ~states["ring"] THEN "peace"
        ELSE IF states["thumb"] /\ states["index"] /\ states["pinky"] THEN "ily"
        ELSE "other"

GetHandShape ==
    /\ Idle
    /\ \E v \in FingerVectors : Call("ASLRecognizer._get_hand_shape", v, get_hand_shape(v))

AdvancedGetHandShape ==
    /\ Idle
    /\ \E v \in FingerVectors :
          Call("AdvancedASLRecognizer._get_hand_shape", v, advanced_get_hand_shape(v))

\* ------------------------------------------- features read from received hands
\* a hand of 21 whole landmark records whose fingers are extended as v says:
\* tips above or below their joints, the thumb tip right or left of its joint
HandOf(v) ==
    [i \in 1..HandLandmarks |->
        [x |-> IF i = 5 THEN (IF v[1] THEN 60 ELSE 40) ELSE 50,
         y |-> CASE i = 9  -> (IF v[2] THEN 30 ELSE 60)
                 [] i = 13 -> (IF v[3] THEN 30 ELSE 60)
                 [] i = 17 -> (IF v[4] THEN 30 ELSE 60)
                 [] i = 21 -> (IF v[5] THEN 30 ELSE 60)
                 [] OTHER  -> 50,
         z |-> 0]]

\* the hands of received frames, as clients send them
ReceivedHands == LandmarkLists \cup {HandOf(v) : v \in SomeHands}

\* landmarks[i]["x"] and landmarks[i]["y"] of lines 524-530 find their keys;
\* i counts from 0 as the code does
HasKeys(landmarks) ==
    /\ \A i \in {4, 3} : "x" \in DOMAIN landmarks[i + 1]
    /\ \A i \in {8, 6, 12, 10, 16, 14, 20, 18} : "y" \in DOMAIN landmarks[i + 1]

\* ASLRecognizer._get_finger_states(landmarks): {} for fewer than 21 records;
\* a subscript that does not find its key raises KeyError
get_finger_states(landmarks) ==
    IF Len(landmarks) < HandLandmarks THEN [raises |-> FALSE, states |-> NoFingers]
    ELSE IF ~HasKeys(landmarks) THEN [raises |-> TRUE, states |-> NoFingers]
    ELSE [raises |-> FALSE,
          states |-> finger_states_of(
                        << landmarks[5].x > landmarks[4].x + 2,
                           landmarks[9].y < landmarks[7].y - 2,
                           landmarks[13].y < landmarks[11].y - 2,
                           landmarks[17].y < landmarks[15].y - 2,
                           landmarks[21].y < landmarks[19].y - 2 >>)]

\* _extract_hand_features(hand_landmarks) as recognize_static_sign calls it on
\* pose_data[0], the hand as it was received: its first reader is
\* _get_finger_states
GetFingerStates ==
    /\ Idle
    /\ \E landmarks \in ReceivedHands :
         LET r == get_finger_states(landmarks)
         IN  /\ ret' = IF r.raises
                       THEN Raised("ASLRecognizer._get_finger_states", landmarks)
                       ELSE Returned("ASLRecognizer._get_finger_states", landmarks,
                                     r.states)
             /\ UNCHANGED <<unit, now, ws_vars, is_loaded, rec_vars, ms_is_loaded,
                            conf_vars>>

\* --------------------------------------------------- motion of the right wrist
\* a GestureFrame, of which the motion functions read right_hand; <<>> is a
\* frame without a right hand
GestureFrame(right_hand) == [right_hand |-> right_hand]

\* the wrists of buffered frames: positions on a grid, one record without x
WristPool ==
    { [x |-> 20, y |-> 20], [x |-> 50, y |-> 50], [x |-> 80, y |-> 50],
      [x |-> 50, y |-> 80], [x |-> 20, y |-> 90], [y |-> 70] }

FramePool == {GestureFrame(<<w>>) : w \in WristPool} \cup {GestureFrame(<<>>)}

\* the gesture buffers _get_motion_direction is called on
DirectionBuffers == UNION { [1..n -> FramePool] : n \in 0..MaxFrames }

\* AdvancedASLRecognizer._get_motion_direction() on the gesture buffer
get_motion_direction(buffer) ==
    IF Len(buffer) < 2 THEN "none"
    ELSE LET start_frame == buffer[1]
             end_frame   == buffer[Len(buffer)]
         IN  IF start_frame.right_hand = <<>> \/ end_frame.right_hand = <<>>
             THEN "none"
             ELSE LET start_wrist == start_frame.right_hand[1]
                      end_wrist   == end_frame.right_hand[1]
                      dx == get(end_wrist, "x", 0) - get(start_wrist, "x", 0)
                      dy == get(end_wrist, "y", 0) - get(start_wrist, "y", 0)
                  IN  IF Abs(dx) > Abs(dy)
                      THEN (IF dx > 0 THEN "right" ELSE "left")
                      ELSE (IF dy > 0 THEN "down" ELSE "up")

GetMotionDirection ==
    /\ Idle
    /\ \E buffer \in DirectionBuffers :
         Call("_get_motion_direction", buffer, get_motion_direction(buffer))

\* a frame whose right wrist is at height y, and a frame without a right hand
WristAt(y) == GestureFrame(<<[x |-> 50, y |-> y]>>)
NoRightHand == GestureFrame(<<>>)

\* movements of the wrist, each repeated over the frames of a buffer: at rest,
\* up and down, up and held, rising and dropping, a hand that is lost every
\* third frame, a wrist record without y
Movements ==
    { <<WristAt(50)>>,
      <<WristAt(30), WristAt(60)>>,
      <<WristAt(30), WristAt(60), WristAt(60)>>,
      <<WristAt(30), WristAt(50), WristAt(70)>>,
      <<WristAt(30), NoRightHand, WristAt(60)>>,
      <<WristAt(60), GestureFrame(<<[x |-> 50]>>)>> }

\* the gesture buffers _count_repetitions is called on: n frames of a movement,
\* from any point of it
RepetitionBuffers ==
    UNION { { [i \in 1..n |-> m[((i + s) % Len(m)) + 1]] : s \in 0..(Len(m) - 1) } :
              m \in Movements, n \in 0..(MinPositions + MaxBeyond) }

HasRightHand(frame) == frame.right_hand # <<>>

\* positions of _count_repetitions: the wrist heights of the frames that have a
\* right hand
wrist_heights(buffer) ==
    LET kept == SelectSeq(buffer, HasRightHand)
    IN  [i \in 1..Len(kept) |-> get(kept[i].right_hand[1], "y", 0)]

\* AdvancedASLRecognizer._count_repetitions() on the gesture buffer
count_repetitions(buffer) ==
    LET positions == wrist_heights(buffer)
    IN  IF Len(positions) < MinPositions THEN 1
        ELSE Max(1, Cardinality({i \in 2..(Len(positions) - 1) :
                                    /\ positions[i] > positions[i - 1]
                                    /\ positions[i] > positions[i + 1]}))

CountRepetitions ==
    /\ Idle
    /\ \E buffer \in RepetitionBuffers :
         Call("_count_repetitions", buffer, count_repetitions(buffer))

Next ==
    \/ \E c \in Conns : Connect(c)
    \/ \E c \in Conns : ClientDisconnect(c)
    \/ \E c \in Conns : ReceiveFrame(c)
    \/ \E c \in Conns : ReceiveEmptyFrame(c)
    \/ \E c \in Conns : ReceiveSpeech(c)
    \/ \E c \in Conns : ReceiveLegacy(c)
    \/ \E c \in Conns : ReceiveOther(c)
    \/ \E c \in Conns : HandleFrame(c)
    \/ \E c \in Conns : HandleHandlessFrame(c)
    \/ \E c \in Conns : HandleOther(c)
    \/ LoadInferenceModel
    \/ ProcessFrame
    \/ Reset
    \/ InferencePredict
    \/ ModelServicePredict
    \/ LoadModelService
    \/ NormalizeLandmarks
    \/ CalculateConfidence
    \/ Calibrate
    \/ ResetHistory
    \/ MatchStaticSign
    \/ MatchDynamicSign
    \/ RecognizeStaticSign
    \/ RecognizeDynamicSign
    \/ MatchStaticPattern
    \/ MatchDynamicPattern
    \/ RecognizeStaticGesture
    \/ GetHandShape
    \/ AdvancedGetHandShape
    \/ GetFingerStates
    \/ GetMotionDirection
    \/ CountRepetitions

Spec == Init /\ [][Next]_vars

\* =================================================================== claims
IsPrediction(ev) == ev.type = "prediction"

Registered(c) == InSeq(c, active_connections)

\* the first n natural numbers' last min(n, cap), in order
RecentFrames(n, cap) ==
    LET k == IF n < cap THEN n ELSE cap
    IN  [i \in 1..k |-> n - k + i]

\* what the handler holds of a session, and what the endpoint holds of it
SessionState(c) ==
    <<IF c \in DOMAIN frame_buffers THEN <<frame_buffers[c]>> ELSE <<>>,
      IF c \in DOMAIN last_predictions THEN <<last_predictions[c]>> ELSE <<>>,
      IF c \in DOMAIN gesture_history THEN <<gesture_history[c]>> ELSE <<>>>>

\* what a session's next frame is answered with, should it arrive when the
\* clock reads MaxTime and its sends succeed
Outcome(c) ==
    IF unit = "handler"
    THEN [p \in PredictResults |->
            LET r == process_landmarks(Handler, c, "some", accepted[c] + 1,
                                       MaxTime, p, "ok", TRUE)
            IN  <<r.out, r.appended>>]
    ELSE [p \in PredictResults |->
            <<DictionaryResults(c, history_append(HistoryOf(c), accepted[c] + 1))>>]

\* a step that processes a frame of connection c
FrameStep(c) ==
    \/ ReceiveFrame(c)
    \/ ReceiveEmptyFrame(c)
    \/ HandleFrame(c)
    \/ HandleHandlessFrame(c)

\* a step that processes an inbound message of connection c
MessageStep(c) ==
    \/ FrameStep(c)
    \/ ReceiveSpeech(c)
    \/ ReceiveLegacy(c)
    \/ ReceiveOther(c)
    \/ HandleOther(c)

\* ----------------------------------------------------------------------- C1
\* C1: no prediction event is ever sent whose confidence is below the rejection
\* threshold (0.4) or whose label is "UNKNOWN" or "Unknown", on any of the paths
\* that send prediction events.
C1_NoRejectedPrediction ==
    \A i \in 1..Len(out) :
        IsPrediction(out[i]) =>
            /\ out[i].confidence >= 40
            /\ out[i].sign \notin {"UNKNOWN", "Unknown"}

\* ----------------------------------------------------------------------- C2
\* C2: when process_frame evaluates a candidate of the sign it emitted last,
\* the candidate is suppressed while less than recognition_cooldown has passed
\* since that emission, and is emitted as a further event once the cooldown
\* has elapsed.
C2_CooldownOnSameSign ==
    [][\A g \in Candidates, t \in StartTime..MaxTime :
         (ProcessFrameWith(g, t) /\ last_emission.sign = g.sign) =>
            IF t - last_emission.time < recognition_cooldown
            THEN /\ ret'.value = NoGesture
                 /\ emitted' = emitted
                 /\ recognizer_history' = recognizer_history
            ELSE /\ ret'.value = g
                 /\ emitted' = emitted + 1
                 /\ recognizer_history' # <<>>
                 /\ recognizer_history'[Len(recognizer_history')] = g]_vars

\* a sign emitted, then suppressed inside the cooldown, then emitted again
C2_Witness ==
    /\ ret.of = "process_frame"
    /\ ~ret.raised
    /\ ret.value # NoGesture
    /\ last_emission.suppressed
    /\ Len(recognizer_history) >= 2
    /\ recognizer_history[Len(recognizer_history)].sign
         = recognizer_history[Len(recognizer_history) - 1].sign

\* ----------------------------------------------------------------------- C3
\* C3: a candidate that clears the confidence threshold and whose label differs
\* from the previous emission is emitted at once, whatever time has passed
\* since that emission, by process_frame (through _apply_temporal_filter) and
\* by process_landmarks.
C3_DifferentLabelEmittedAtOnce ==
    [][/\ \A g \in Candidates, t \in StartTime..MaxTime :
            (/\ ProcessFrameWith(g, t)
             /\ last_emission.sign # "None"
             /\ last_emission.sign # g.sign) => ret'.value = g
       /\ \A c \in Conns, t \in StartTime..MaxTime, p \in PredictResults :
            (/\ unit = "handler"
             /\ AtDepth(c)
             /\ p.conf >= confidence_threshold
             /\ last_sent[c] # "None"
             /\ last_sent[c] # p.label
             /\ HandleFrameWith(c, TRUE, t, p, "ok"))
            => out' = <<Event("prediction", p.label, p.conf)>>]_vars

\* ----------------------------------------------------------------------- C4
\* C4: once the endpoint has handled a client's disconnect, the websocket is
\* absent from active_connections, frame_buffers, last_predictions and
\* connection_data.
C4_DisconnectDiscardsSession ==
    \A c \in Conns :
        pc[c] = "closed" =>
            /\ ~Registered(c)
            /\ c \notin DOMAIN frame_buffers
            /\ c \notin DOMAIN last_predictions
            /\ c \notin DOMAIN connection_data

\* a session closed, next to one that goes on with frames in its buffer
C4_Witness ==
    \E c \in Conns, d \in Conns :
        /\ pc[c] = "closed"
        /\ pc[d] = "loop"
        /\ d \in DOMAIN frame_buffers
        /\ Len(frame_buffers[d]) > 0

\* ----------------------------------------------------------------------- C5
\* C5: a step that processes a frame of connection a leaves the frame buffer,
\* the last-prediction record and the gesture history of every other connection
\* b as they were, and leaves what b's next frame is answered with as it was.
\* (A step that counts a frame for b or moves b's coroutine is b's own.)
C5_SessionsIsolated ==
    [][\A a \in Conns :
         \A b \in Conns \ {a} :
           \/ accepted'[b] # accepted[b]
           \/ pc'[b] # pc[b]
           \/ /\ SessionState(b)' = SessionState(b)
              /\ (accepted'[a] = accepted[a] \/ Outcome(b)' = Outcome(b))
           \/ ~FrameStep(a)]_vars

\* two sessions with frames buffered, in different numbers
C5_Witness ==
    \E a \in Conns, b \in Conns :
        /\ a \in DOMAIN frame_buffers
        /\ b \in DOMAIN frame_buffers
        /\ Len(frame_buffers[a]) > Len(frame_buffers[b])
        /\ Len(frame_buffers[b]) > 0

\* ----------------------------------------------------------------------- C6
\* C6: each frame buffer holds the most recent min(n, capacity) of the n frames
\* accepted, in arrival order: gesture_buffer (60), frame_buffers[ws] (30) and
\* websocket.gesture_history (30).
C6_BuffersHoldMostRecent ==
    /\ unit = "advanced" => gesture_buffer = RecentFrames(frames_seen, BufferMaxLen)
    /\ \A c \in DOMAIN frame_buffers :
         unit = "handler" => frame_buffers[c] = RecentFrames(accepted[c], buffer_size)
    /\ \A c \in DOMAIN gesture_history :
         gesture_history[c] = RecentFrames(accepted[c], HistoryCap)

\* a buffer that has evicted its oldest frame
C6_Witness ==
    \E c \in DOMAIN frame_buffers :
        /\ accepted[c] > buffer_size
        /\ Len(frame_buffers[c]) = buffer_size
        /\ frame_buffers[c][1] = accepted[c] - buffer_size + 1

\* ----------------------------------------------------------------------- C7
\* C7: the prediction the 'landmarks'/'holistic' branch sends is the result of
\* the cascade: the sequence model is consulted only below 0.5, the rule
\* fallback only when what survives is below 0.3, a later result is kept only
\* when strictly higher, so the final confidence is never below the
\* dictionary's.
ClaimedFinal(f, d, m, r) ==
    /\ f.conf >= d.conf
    /\ m # NotAsked => d.conf < MLThreshold
    /\ r # NotAsked => Max(d.conf, m.conf) < RuleThreshold
    /\ f.conf = Max(d.conf, Max(m.conf, r.conf))
    /\ (m.conf <= d.conf /\ r.conf <= d.conf) => f = d
    /\ (m.conf > d.conf /\ r.conf <= m.conf) => f = m
    /\ r.conf > Max(d.conf, m.conf) => f = r

C7_Cascade ==
    [][\A c \in Conns :
         (unit = "endpoint" /\ accepted'[c] = accepted[c] + 1) =>
            \A d \in DictionaryResults(c, gesture_history'[c]) \ {Raise} :
              \A m \in SequenceResults(c, d) :
                \A r \in FallbackResults(c, AfterSequenceModel(d, m)) \ {Raise} :
                  ReceiveFrameWith(c, TRUE, d, m, r) =>
                    /\ Len(out') = 1
                    /\ IsPrediction(out'[1])
                    /\ ClaimedFinal(Result(out'[1].sign, out'[1].confidence), d, m, r)]_vars

\* the sequence model's result has replaced the dictionary's
C7_Witness ==
    /\ unit = "endpoint"
    /\ is_loaded
    /\ out = <<Event("prediction", "PLEASE", 90)>>

\* ----------------------------------------------------------------------- C8
\* C8: InferenceService.predict and ModelService.predict return ("Unknown", 0.0)
\* and do not raise, when given an empty landmark list and whenever the model
\* is not loaded.
C8_PredictNeverRaises ==
    /\ (ret.of = "InferenceService.predict" /\ (ret.arg = "empty" \/ ~is_loaded))
         => (~ret.raised /\ ret.value = Result("Unknown", 0))
    /\ (ret.of = "ModelService.predict" /\ (ret.arg = "empty" \/ ~ms_is_loaded))
         => (~ret.raised /\ ret.value = Result("Unknown", 0))

\* ----------------------------------------------------------------------- C9
\* C9: no frame-processing path answers a frame that carries hands with only a
\* 'model not loaded' failure, and processing the frame does not close the
\* connection.
C9_NoModelNotLoadedAnswer ==
    [][\A c \in Conns :
         \/ /\ out' # <<Event("error", "Model not loaded", -1)>>
            /\ pc'[c] = pc[c]
         \/ ~(ReceiveFrame(c) \/ HandleFrame(c))]_vars

\* ---------------------------------------------------------------------- C10
\* C10: no step that processes an inbound message, failing or not, takes the
\* connection out of the receive loop or out of the handler's registry; the
\* handler alone deregisters a session, and only when a send to it has failed.
C10_FailureKeepsLoop ==
    [][\A c \in Conns :
         \/ /\ pc'[c] = pc[c]
            /\ Registered(c) => (Registered(c)' \/ (unit = "handler" /\ out' = <<>>))
         \/ ~MessageStep(c)]_vars

\* frames go on being taken after the frame whose recognition raised
C10_Witness ==
    \E c \in Conns :
        /\ unit = "endpoint"
        /\ wire[c] = "hands"
        /\ accepted[c] > MinDynamicFrames
        /\ pc[c] = "loop"
        /\ Registered(c)
        /\ out = <<ErrorResponse>>

\* ---------------------------------------------------------------------- C11
\* C11: a frame that contains zero hands is answered with exactly one no-hands
\* status event, and leaves the session's frame buffer, cooldown record and
\* gesture history as they were.
C11_NoHandsStatusEvent ==
    [][\A c \in Conns :
         (ReceiveEmptyFrame(c) \/ HandleHandlessFrameWith(c, TRUE, "none")) =>
            /\ out' = <<Event("no_hands", "", -1)>>
            /\ SessionState(c)' = SessionState(c)]_vars

\* ---------------------------------------------------------------------- C12
\* a step in which the server tried to send an event to c and the send failed
FailedSend(c) ==
    \/ HandleHandlessFrameWith(c, FALSE, "none")
    \/ /\ unit = "endpoint"
       /\ accepted'[c] = accepted[c] + 1
       /\ \E d \in DictionaryResults(c, gesture_history'[c]) :
            \E m \in SequenceResults(c, d) :
              \E r \in FallbackResults(c, IF d = Raise THEN d ELSE AfterSequenceModel(d, m)) :
                ReceiveFrameWith(c, FALSE, d, m, r)

\* C12: when a send to a connection fails, the connection is removed from the
\* handler's active connections and its frame buffer and cooldown record are
\* discarded, whichever send the endpoint used.
C12_SendFailureTearsDown ==
    [][\A c \in Conns :
         (Registered(c) /\ FailedSend(c)) =>
            /\ ~Registered(c)'
            /\ c \notin DOMAIN frame_buffers'
            /\ c \notin DOMAIN last_predictions']_vars

\* ---------------------------------------------------------------------- C13
\* C13: every event the /ws/sign endpoint sends, on the error branches too,
\* carries a type field.
C13_EveryEventTyped ==
    unit = "endpoint" => \A i \in 1..Len(out) : out[i].type # ""

\* ---------------------------------------------------------------------- C14
\* what client c has received once the server has answered its first message
FirstReceived(c) == inbox[c] \o out'

\* C14: on a freshly opened connection whose first message is a frame with a
\* hand, the first event the client receives is a prediction event.
C14_FirstEventIsPrediction ==
    [][\A c \in Conns :
         (unit = "endpoint" /\ ~spoke[c] /\ accepted'[c] = accepted[c] + 1) =>
            \A d \in DictionaryResults(c, gesture_history'[c]) \ {Raise} :
              \A m \in SequenceResults(c, d) :
                \A r \in FallbackResults(c, AfterSequenceModel(d, m)) \ {Raise} :
                  ReceiveFrameWith(c, TRUE, d, m, r) =>
                    /\ FirstReceived(c) # <<>>
                    /\ IsPrediction(FirstReceived(c)[1])]_vars

\* ---------------------------------------------------------------------- C15
\* the signs text_to_sign maps the words of a text to, in the order of the
\* words, the words without a sign left out
IsMapped(sign) == sign # "None"

MappedSigns(text) == SelectSeq([i \in DOMAIN text |-> text_to_sign(text[i])], IsMapped)

\* C15: on a freshly opened connection whose first message is a 'speech'
\* message with at least one mapped word, the first event the client receives
\* is a "signs" event that lists the mapped signs in the order of the words.
C15_FirstEventIsSigns ==
    [][\A c \in Conns :
         (unit = "endpoint" /\ ~spoke[c] /\ spoke'[c]) =>
            \A text \in Texts :
              (MappedSigns(text) # <<>> /\ ReceiveSpeechWith(c, TRUE, text)) =>
                 /\ FirstReceived(c) # <<>>
                 /\ FirstReceived(c)[1] = Event("signs", SignList(MappedSigns(text)), -1)]_vars

\* ---------------------------------------------------------------------- C16
\* v is w clamped into [0, 1]
Clamped(v, w) ==
    /\ v \in 0..100
    /\ w \in 0..100 => v = w
    /\ w < 0 => v = 0
    /\ w > 100 => v = 100

\* a record's coordinate, 0 when the record lacks it
Coordinate(r, k) == IF k \in DOMAIN r THEN r[k] ELSE 0

UnknownIsZero(x) == x.label \in {"UNKNOWN", "Unknown"} => x.conf = 0

\* C17: whenever the dictionary, the sequence-model adapter or the rule
\* fallback return the label "UNKNOWN" or "Unknown", the confidence returned
\* with it is exactly 0.
C17_UnknownHasZeroConfidence ==
    [][/\ (ret'.of = "InferenceService.predict" /\ ~ret'.raised) => UnknownIsZero(ret'.value)
       /\ \A c \in Conns :
            (unit = "endpoint" /\ accepted'[c] = accepted[c] + 1) =>
               \A d \in DictionaryResults(c, gesture_history'[c]) \ {Raise} :
                 \A m \in SequenceResults(c, d) :
                   \A r \in FallbackResults(c, AfterSequenceModel(d, m)) \ {Raise} :
                     ReceiveFrameWith(c, TRUE, d, m, r) =>
                        /\ UnknownIsZero(d)
                        /\ m # NotAsked => UnknownIsZero(m)
                        /\ r # NotAsked => UnknownIsZero(r)]_vars

\* ---------------------------------------------------------------------- C18
\* C18: the scores of the four matching functions and the final confidence of
\* calculate_confidence lie in [0, 1].
C18_ConfidenceInUnitInterval ==
    /\ ret.of \in {"_match_static_sign", "_match_dynamic_sign",
                   "_match_static_pattern", "_match_dynamic_pattern"}
         => ret.value \in 0..100
    /\ ret.of = "calculate_confidence" => ret.value.confidence \in 0..100

\* ---------------------------------------------------------------------- C19
\* the scores of the entries of a catalog, 0 for an entry of another type
StaticSignScores(d, f) ==
    [i \in DOMAIN d |-> IF d[i].type = "static" THEN match_static_sign(f, d[i]) ELSE 0]

DynamicSignScores(d, f) ==
    [i \in DOMAIN d |-> IF d[i].type \in {"dynamic", "two_handed"}
                        THEN match_dynamic_sign(f, d[i]) ELSE 0]

StaticPatternScores(d, f) ==
    [i \in DOMAIN d |-> IF d[i].type = "static" THEN match_static_pattern(f, d[i]) ELSE 0]

Top(scores) == CHOOSE t \in {scores[i] : i \in DOMAIN scores} :
                  \A i \in DOMAIN scores : scores[i] <= t

Winners(scores) == {i \in DOMAIN scores : scores[i] = Top(scores)}

\* the catalogs with the entries of d in another order
Permuted(d) ==
    { [i \in DOMAIN d |-> d[q[i]]] :
        q \in {r \in [DOMAIN d -> DOMAIN d] : \A i \in DOMAIN d : \E k \in DOMAIN d : r[k] = i} }

\* of the entries that attain the highest positive score, the matcher returned
\* the first
FirstWins(d, scores, floor) ==
    Top(scores) > floor =>
        ret.value.label = d[CHOOSE i \in Winners(scores) :
                               \A k \in Winners(scores) : i <= k].name

ClaimedShape(v) ==
    LET shown == {Fingers[i] : i \in {k \in DOMAIN v : v[k]}}
    IN  CASE shown = {} -> "fist"
          [] shown = {"thumb", "index", "middle", "ring", "pinky"} -> "open"
          [] shown = {"index"} -> "pointing"
          [] shown = {"index", "middle"} -> "peace"
          [] shown = {"thumb", "index", "pinky"} -> "ily"
          [] OTHER -> "other"

\* the names the two classifiers give the shapes
ShapeNamed(name) ==
    CASE name = "open_hand" -> "open"
      [] name = "partial"   -> "other"
      [] OTHER              -> name

\* C20: from the finger-extended vector the hand-shape classifiers return fist
\* for no finger, open for all five, pointing for the index alone, peace for
\* index and middle alone, the I-love-you shape for thumb, index and pinky
\* alone, and partial/other in every remaining case.
C20_HandShape ==
    ret.of \in {"ASLRecognizer._get_hand_shape", "AdvancedASLRecognizer._get_hand_shape"}
       => ShapeNamed(ret.value) = ClaimedShape(ret.arg)

C22_EmissionInHolding ==
    [][unit = "advanced" =>
         \A g \in Candidates, t \in StartTime..MaxTime :
            (/\ ProcessFrameWith(g, t)
             /\ ~ret'.raised
             /\ ret'.value # NoGesture)
            => /\ current_state = "holding"
               /\ current_state' = "transitioning"]_vars

\* ---------------------------------------------------------------------- C23
\* how many of the last three recorded predictions have the index idx
Agreeing(history, idx) ==
    LET n == Len(history)
    IN  Cardinality({i \in Max(1, n - 2)..n : history[i].idx = idx})

\* C23: whenever the arg-max index of a call of calculate_confidence equals at
\* least 2 of the last 3 recorded predictions, the adjusted confidence is
\* multiplied by 1.1 and capped at 1.0 (before the calibration is applied).
C23_BoostOnAgreement ==
    [][unit = "confidence" =>
         \A a \in ConfidenceCalls :
            (/\ CalculateConfidenceWith(a)
             /\ Agreeing(prediction_history, argmax(a.predictions)) >= 2)
            => ret'.value.confidence =
                  Min(Times(Min(Times(adjusted_confidence(a.predictions, a.landmarks,
                                                          a.context), Boost), One),
                            calibration_factor), One)]_vars

\* ---------------------------------------------------------------------- C24
\* C24: in process_landmarks an evaluation whose confidence is below
\* confidence_threshold, answered with low_confidence, neither starts nor
\* extends the cooldown: the record the cooldown is measured from stays as the
\* last emitted prediction left it.
C24_LowConfidenceKeepsCooldown ==
    [][\A c \in Conns :
         (unit = "handler" /\ AtDepth(c)) =>
            \A t \in StartTime..MaxTime, p \in PredictResults :
               (/\ WillEvaluate(c, t)
                /\ p.conf < confidence_threshold
                /\ HandleFrameWith(c, TRUE, t, p, "ok"))
               => /\ out' = <<Event("low_confidence", "", p.conf)>>
                  /\ last_predictions'[c] = last_predictions[c]]_vars

\* ---------------------------------------------------------------------- C25
\* C25: a received hand is read by feature extraction only after
\* normalize_landmarks has clamped it, defaulted its missing coordinates and
\* cut it to 21 records, so that reading it raises nothing: the finger states
\* are those of the normalized hand.
C25_NormalizedBeforeRead ==
    ret.of = "ASLRecognizer._get_finger_states"
       => /\ ~ret.raised
          /\ ret.value = get_finger_states(normalize_landmarks(ret.arg)).states

\* ---------------------------------------------------------------------- C26
\* the net displacement of the right wrist between the first and the last frame
Displacement(buffer) ==
    LET a == buffer[1].right_hand[1]
        b == buffer[Len(buffer)].right_hand[1]
    IN  [dx |-> get(b, "x", 0) - get(a, "x", 0), dy |-> get(b, "y", 0) - get(a, "y", 0)]

\* C26: _get_motion_direction returns the direction of the net wrist
\* displacement along its dominant axis: left or right when |dx| is larger, up
\* or down when |dy| is larger, and the horizontal direction when |dx| = |dy|.
C26_DominantAxis ==
    (/\ ret.of = "_get_motion_direction"
     /\ Len(ret.arg) >= 2
     /\ ret.arg[1].right_hand # <<>>
     /\ ret.arg[Len(ret.arg)].right_hand # <<>>)
    => LET d == Displacement(ret.arg)
       IN  /\ Abs(d.dx) > Abs(d.dy) => ret.value = (IF d.dx > 0 THEN "right" ELSE "left")
           /\ Abs(d.dx) < Abs(d.dy) => ret.value = (IF d.dy > 0 THEN "down" ELSE "up")
           /\ (Abs(d.dx) = Abs(d.dy) /\ d.dx # 0) => ret.value \in {"left", "right"}

\* ---------------------------------------------------------------------- C27
\* the positions of a series that are strictly greater than both neighbours
Peaks(series) ==
    {i \in 2..(Len(series) - 1) : series[i] > series[i - 1] /\ series[i] > series[i + 1]}

\* C27: _count_repetitions returns max(1, p), p being the number of positions
\* of the buffered wrist-y series that are strictly greater than both
\* neighbours; a buffer whose frames all have the same wrist position yields 1.
C27_RepetitionsArePeaks ==
    ret.of = "_count_repetitions"
       => ret.value = Max(1, Cardinality(Peaks(wrist_heights(ret.arg))))

\* ---------------------------------------------------------------------- C28
\* how often a websocket is listed in active_connections
Listed(c) == Cardinality({i \in 1..Len(active_connections) : active_connections[i] = c})

\* C28: after any completed connect, disconnect and send_json calls, failed
\* sends included, a websocket is in active_connections if and only if it has
\* an entry in each of frame_buffers, last_predictions and connection_data, and
\* it is listed in active_connections at most once.
C28_RegistryConsistent ==
    \A c \in Conns :
        /\ Registered(c) <=> (/\ c \in DOMAIN frame_buffers
                              /\ c \in DOMAIN last_predictions
                              /\ c \in DOMAIN connection_data)
        /\ Listed(c) <= 1

\* a session torn down by a failed send while its coroutine goes on, next to a
\* registered session with frames in its buffer
C28_Witness ==
    \E c \in Conns, d \in Conns :
        /\ unit = "handler"
        /\ pc[c] = "loop"
        /\ spoke[c]
        /\ ~Registered(c)
        /\ Registered(d)
        /\ Len(frame_buffers[d]) > 0

\* ---------------------------------------------------------------------- C29
\* the history with one more emitted gesture: the most recent 20, in order
WithEmitted(history, g) ==
    LET a == Append(history, g)
    IN  IF Len(a) > GestureHistoryMaxLen THEN Tail(a) ELSE a

\* C29: a gesture that _apply_temporal_filter suppresses leaves last_recognized,
\* last_recognition_time and gesture_history as they were, and a gesture it
\* emits is recorded as the last one and appended to gesture_history; so the
\* cooldown is always measured from the last emitted gesture.
C29_SuppressionLeavesRecord ==
    [][unit = "advanced" =>
         /\ \A g \in Candidates, t \in StartTime..MaxTime :
               ProcessFrameWith(g, t) =>
                  IF ret'.value = NoGesture
                  THEN /\ last_recognized' = last_recognized
                       /\ last_recognition_time' = last_recognition_time
                       /\ recognizer_history' = recognizer_history
                  ELSE /\ last_recognized' = g
                       /\ last_recognition_time' = t
                       /\ recognizer_history' = WithEmitted(recognizer_history, g)
         /\ last_recognition_time' = last_emission'.time
         /\ last_emission'.sign # "None" =>
               /\ last_recognized'.sign = last_emission'.sign
               /\ recognizer_history'[Len(recognizer_history')].sign = last_emission'.sign]_vars

\* two gestures emitted, and a candidate suppressed after them
C29_Witness ==
    /\ ret.of = "process_frame"
    /\ ret.arg \in Candidates
    /\ ret.value = NoGesture
    /\ Len(recognizer_history) >= 2
    /\ recognizer_history[1].sign # recognizer_history[2].sign

\* ---------------------------------------------------------------------- C30
\* C30: after any load_model calls on InferenceService or ModelService the
\* readiness flag is true exactly when the most recent load_model call returned
\* True: every load_model call leaves the flag equal to what it returns, a
\* failed load leaves it false, and no other call changes it.
C30_ReadyIffLastLoadSucceeded ==
    [][unit = "adapter" =>
         /\ LoadInferenceModel => is_loaded' = ret'.value
         /\ LoadModelService => ms_is_loaded' = ret'.value
         /\ (InferencePredict \/ ModelServicePredict) =>
               (is_loaded' = is_loaded /\ ms_is_loaded' = ms_is_loaded)]_vars

====
